---- MODULE Spec2Model ----
(***************************************************************************)
(* Model of the three Streamlit meal planners of Meal_plan_GenAI:          *)
(*   ai_meal_pexels.py  (Gemini text + Pexels image search)                *)
(*   meal_hugging.py    (Gemini text + Hugging Face image generation)      *)
(*   meal_text.py       (Gemini text only)                                 *)
(* Texts are sequences of one-character strings, so that the regular       *)
(* expressions and string methods of the scripts are computed character by *)
(* character.                                                              *)
(***************************************************************************)
EXTENDS Integers, Sequences, FiniteSets, TLC

VARIABLES
    meal_name,      \* search: argument of search_pexels
    apiResponses,   \* search: what the Pexels API answers to calls 1..3
    searchOut,      \* search: outcome record of the last search_pexels run
    searchRuns,     \* search: number of searches run so far
    variant,        \* app: which script runs ("pexels", "hugging", "text")
    env,            \* app: the credentials present in the environment
    pc,             \* app: position of the current script run
    pressed,        \* app: st.button returns True in the current run
    runs,           \* app: number of script runs started
    configured,     \* app: genai.configure / GenerativeModel have run
    out,            \* app: the elements rendered by the current run, in order
    genCalls,       \* app: the model.generate_content calls of the current run
    imgRequests,    \* app: HTTP image requests sent by the current run
    imgRaised,      \* app: an HTTP image request of the current run raised
    failure,        \* app: what the except clause of the handler caught
    plan,           \* app: first_plan, then the combined plan text
    dayQueue,       \* app: pieces of the plan the day loop has yet to visit
    mealQueue,      \* app: meals of the current day the loop has yet to visit
    cache,          \* app: st.cache_data of generate_meal_image
    imgLog,         \* app: the generate_meal_image calls of the session
    grocery_df,     \* app: rows of the grocery data frame
    planIn,         \* plan parser: first answer of the model, being typed
    planLen,        \* plan parser: number of chunks of planIn
    planSecond,     \* plan parser: second answer of the model
    planV,          \* plan parser: the script that parses
    planPc,         \* plan parser: "build", "parsed" or "resplit"
    days,           \* plan parser: the list re.split returned
    dayPlans,       \* plan parser: heading, content and meals per expander
    days2,          \* plan parser: re.split of the rejoined pieces
    groceryIn,      \* grocery parser: the model's answer, being typed
    groceryLen,     \* grocery parser: number of chunks typed
    groceryV,       \* grocery parser: the script that parses
    groceryPc,      \* grocery parser: "build" or "parsed"
    rows,           \* grocery parser: the rows of the data frame
    sidebarV,       \* sidebar: the script that runs
    age,            \* sidebar: st.number_input("Age")
    gender,         \* sidebar: st.selectbox("Gender")
    weight,         \* sidebar: st.number_input("Weight (kg)"), in tenths of a kg
    height,         \* sidebar: st.number_input("Height (cm)"), in tenths of a cm
    activity_level, \* sidebar: st.selectbox("Activity Level")
    goal,           \* sidebar: st.radio("Health Goal")
    bmr,            \* sidebar: bmr, in eighths of a kcal
    tdee,           \* sidebar: tdee, in units of 1/320 kcal
    calorie_goal    \* sidebar: calorie_goal, in units of 1/3200 kcal

searchVars == <<meal_name, apiResponses, searchOut, searchRuns>>

appVars == <<variant, env, pc, pressed, runs, configured, out, genCalls,
             imgRequests, imgRaised, failure, plan, dayQueue, mealQueue,
             cache, imgLog, grocery_df>>

planVars == <<planIn, planLen, planSecond, planV, planPc, days, dayPlans, days2>>

groceryVars == <<groceryIn, groceryLen, groceryV, groceryPc, rows>>

sidebarVars == <<sidebarV, age, gender, weight, height, activity_level, goal,
                 bmr, tdee, calorie_goal>>

vars == <<searchVars, appVars, planVars, groceryVars, sidebarVars>>

None == "None"

NoSearch == [calls |-> <<>>, result |-> None, raised |-> FALSE]

\* Each part of the model has a specification of its own; these are the values
\* the variables of a part keep while another part runs.
SearchIdle ==
    /\ meal_name = <<>>
    /\ apiResponses = <<None, None, None>>
    /\ searchOut = NoSearch
    /\ searchRuns = 0

AppIdle ==
    /\ variant = "text"
    /\ env = {}
    /\ pc = "start"
    /\ pressed = FALSE
    /\ runs = 0
    /\ configured = FALSE
    /\ out = <<>>
    /\ genCalls = <<>>
    /\ imgRequests = 0
    /\ imgRaised = FALSE
    /\ failure = "none"
    /\ plan = <<>>
    /\ dayQueue = <<>>
    /\ mealQueue = <<>>
    /\ cache = <<>>
    /\ imgLog = <<>>
    /\ grocery_df = <<>>

PlanIdle ==
    /\ planIn = <<>>
    /\ planLen = 0
    /\ planSecond = <<>>
    /\ planV = "pexels"
    /\ planPc = "build"
    /\ days = <<>>
    /\ dayPlans = <<>>
    /\ days2 = <<>>

GroceryIdle ==
    /\ groceryIn = <<>>
    /\ groceryLen = 0
    /\ groceryV = "pexels"
    /\ groceryPc = "build"
    /\ rows = <<>>

SidebarIdle ==
    /\ sidebarV = "text"
    /\ age = 20
    /\ gender = "Male"
    /\ weight = 500
    /\ height = 1700
    /\ activity_level = "Sedentary"
    /\ goal = "Fat Loss"
    /\ bmr = 0
    /\ tdee = 0
    /\ calorie_goal = 0

(***************************************************************************)
(* Python string methods on character sequences                            *)
(***************************************************************************)

\* the whitespace characters of the modelled alphabet
Whitespace == {" ", "\n"}

RECURSIVE lstrip(_)
lstrip(s) ==
    IF s # <<>> /\ Head(s) \in Whitespace THEN lstrip(Tail(s)) ELSE s

RECURSIVE rstrip(_)
rstrip(s) ==
    IF s # <<>> /\ s[Len(s)] \in Whitespace
    THEN rstrip(SubSeq(s, 1, Len(s) - 1)) ELSE s

strip(s) == lstrip(rstrip(s))

\* str.lower() on the letters of the modelled alphabet
lowerChar(c) ==
    CASE c = "B" -> "b"
      [] c = "D" -> "d"
      [] c = "E" -> "e"
      [] c = "L" -> "l"
      [] c = "O" -> "o"
      [] c = "R" -> "r"
      [] c = "S" -> "s"
      [] c = "W" -> "w"
      [] OTHER -> c

lower(s) == [i \in 1..Len(s) |-> lowerChar(s[i])]

\* TRUE iff pat occurs in s at position i
StartsAt(s, i, pat) ==
    /\ i >= 1
    /\ i + Len(pat) - 1 <= Len(s)
    /\ \A k \in 1..Len(pat) : s[i + k - 1] = pat[k]

\* s.split(sep)[0] : the text before the first occurrence of sep
SplitFirst(s, sep) ==
    LET hits == {i \in 1..Len(s) : StartsAt(s, i, sep)}
    IN  IF hits = {} THEN s
        ELSE LET first == CHOOSE i \in hits : \A j \in hits : i <= j
             IN  SubSeq(s, 1, first - 1)

\* TRUE iff pat occurs somewhere in s (Python: pat in s)
Contains(s, pat) == \E i \in 1..Len(s) : StartsAt(s, i, pat)

Min(S) == CHOOSE i \in S : \A j \in S : i <= j
Max(S) == CHOOSE i \in S : \A j \in S : i >= j

\* str.splitlines() (the only line break of the alphabet is "\n")
RECURSIVE splitlines(_)
splitlines(s) ==
    IF s = <<>> THEN <<>>
    ELSE LET nls == {i \in 1..Len(s) : s[i] = "\n"}
         IN  IF nls = {} THEN <<s>>
             ELSE <<SubSeq(s, 1, Min(nls) - 1)>>
                      \o splitlines(SubSeq(s, Min(nls) + 1, Len(s)))

\* sep.join(parts)
RECURSIVE join(_, _)
join(sep, parts) ==
    IF parts = <<>> THEN <<>>
    ELSE IF Len(parts) = 1 THEN parts[1]
    ELSE parts[1] \o sep \o join(sep, Tail(parts))

\* the concatenation of a sequence of texts
RECURSIVE Concat(_)
Concat(parts) == IF parts = <<>> THEN <<>> ELSE Head(parts) \o Concat(Tail(parts))

Digits == {"0", "1", "2", "3", "4", "5", "6", "7", "8", "9"}

\* length of the run of whitespace that starts at position i of s
RECURSIVE WsRun(_, _)
WsRun(s, i) ==
    IF i <= Len(s) /\ s[i] \in Whitespace THEN 1 + WsRun(s, i + 1) ELSE 0

(***************************************************************************)
(* ai_meal_pexels.py : Pexels image helpers                                *)
(***************************************************************************)
simplify(text) ==
    strip(SplitFirst(SplitFirst(lower(text), <<",">>), <<"w", "i", "t", "h">>))

HealthyFood == <<"h", "e", "a", "l", "t", "h", "y", " ", "f", "o", "o", "d">>

fallback_queries(name) == <<name, simplify(name), HealthyFood>>

\* What one call of call_pexels_api can produce: an image URL, None (no API
\* key, a non-200 status or an empty photo list), or an exception raised by
\* requests.get / response.json (the function has no try block).
Urls == {"url1", "url2", "url3"}
Raise == "raise"
ApiOutcomes == Urls \cup {None, Raise}

\* The loop of search_pexels over the first n queries, given the answers the
\* API gives to the successive calls.  Returns the calls made (the queries, in
\* order), the value returned and whether an exception left the function.
RECURSIVE search_loop(_, _, _, _)
search_loop(queries, responses, i, calls) ==
    IF i > Len(queries)
    THEN [calls |-> calls, result |-> None, raised |-> FALSE]
    ELSE LET called == Append(calls, queries[i])
         IN  IF responses[i] = Raise
             THEN [calls |-> called, result |-> None, raised |-> TRUE]
             ELSE IF responses[i] # None
             THEN [calls |-> called, result |-> responses[i], raised |-> FALSE]
             ELSE search_loop(queries, responses, i + 1, called)

\* search_pexels without the early return: every query is called and the last
\* non-empty answer wins
search_pexels_no_stop(name, responses) ==
    LET hits == {i \in 1..3 : responses[i] \in Urls}
    IN  [calls |-> fallback_queries(name),
         result |-> IF hits = {} THEN None ELSE responses[Max(hits)],
         raised |-> FALSE]

search_pexels(name, responses) ==
    search_loop(fallback_queries(name), responses, 1, <<>>)

get_meal_image(name, responses) == search_pexels(name, responses)

\* meal descriptions handed to the image search
OatsMilk == <<"O", "a", "t", "s", ",", " ", "m", "i", "l", "k">>
RiceWithDal == <<"R", "i", "c", "e", " ", "W", "i", "t", "h", " ", "d", "a", "l">>
Eggs == <<"E", "g", "g", "s">>
MealNames == {OatsMilk, RiceWithDal, Eggs, HealthyFood}

\* bound on the number of searches of one run of the model
MaxSearches == 2

(***************************************************************************)
(* Plan text parsing (ai_meal_pexels.py, meal_hugging.py, meal_text.py)    *)
(***************************************************************************)
DayWord == <<"D", "a", "y">>

\* re.findall(r"Day\s*\d", plan) : the positions where a match starts.  Two
\* matches never overlap, so the list findall returns has one entry per
\* position.
DayTokenAt(s, i) ==
    /\ StartsAt(s, i, DayWord)
    /\ i + 3 + WsRun(s, i + 3) <= Len(s)
    /\ s[i + 3 + WsRun(s, i + 3)] \in Digits

findall_days(s) == {i \in 1..Len(s) : DayTokenAt(s, i)}

\* the lookahead (?=Day \d) holds at position i
DayHeadingAt(s, i) ==
    /\ StartsAt(s, i, DayWord \o <<" ">>)
    /\ i + 4 <= Len(s)
    /\ s[i + 4] \in Digits

\* the pieces of a text that starts a piece at position 1, cut before every
\* later position where the lookahead holds
RECURSIVE split_rest(_)
split_rest(s) ==
    LET hits == {i \in 2..Len(s) : DayHeadingAt(s, i)}
    IN  IF hits = {} THEN <<s>>
        ELSE <<SubSeq(s, 1, Min(hits) - 1)>>
                 \o split_rest(SubSeq(s, Min(hits), Len(s)))

\* a split that leaves out the piece before the first day heading
split_days_drop_first(s) ==
    IF DayHeadingAt(s, 1) THEN split_rest(s) ELSE Tail(split_rest(s))

\* re.split(r"Day \d", s): a split without lookahead, which eats the heading
split_days_consume(s) ==
    LET pieces == split_rest(s)
        eaten == [i \in 1..Len(pieces) |->
                    IF i = 1 /\ ~DayHeadingAt(s, 1) THEN pieces[i]
                    ELSE SubSeq(pieces[i], 6, Len(pieces[i]))]
    IN  IF DayHeadingAt(s, 1) THEN <<(<<>>)>> \o eaten ELSE eaten

\* re.split(r"(?=Day \d)", s), and re.split(r"(?=Day \d)\s*", s) of
\* meal_hugging.py: \s* matches nothing where "Day" follows.  An empty match at
\* the very start yields a leading empty piece.
split_days(s) ==
    IF DayHeadingAt(s, 1) THEN <<(<<>>)>> \o split_rest(s) ELSE split_rest(s)

\* plan.split("\n\n") of meal_text.py
RECURSIVE split_paragraphs(_)
split_paragraphs(s) ==
    LET hits == {i \in 1..Len(s) : StartsAt(s, i, <<"\n", "\n">>)}
    IN  IF hits = {} THEN <<s>>
        ELSE <<SubSeq(s, 1, Min(hits) - 1)>>
                 \o split_paragraphs(SubSeq(s, Min(hits) + 2, Len(s)))

Stars == <<"*", "*">>

\* position of the "**" closing a label opened by the "**" at i (lazy .*? that
\* cannot cross a line break), or 0
LabelClose(s, i) ==
    LET ends == {j \in (i + 2)..Len(s) :
                    /\ StartsAt(s, j, Stars)
                    /\ \A k \in (i + 2)..(j - 1) : s[k] # "\n"}
    IN  IF StartsAt(s, i, Stars) /\ ends # {} THEN Min(ends) ELSE 0

\* end (exclusive) of the line that contains position i
RECURSIVE LineEnd(_, _)
LineEnd(s, i) ==
    IF i > Len(s) \/ s[i] = "\n" THEN i ELSE LineEnd(s, i + 1)

\* re.findall(r"\*\*(.*?)\*\*:?\s*(.*)", content) scanning from position i
RECURSIVE findall_meals(_, _)
findall_meals(s, i) ==
    IF i > Len(s) THEN <<>>
    ELSE IF LabelClose(s, i) = 0 THEN findall_meals(s, i + 1)
    ELSE LET close == LabelClose(s, i)
             afterColon == IF close + 2 <= Len(s) /\ s[close + 2] = ":"
                           THEN close + 3 ELSE close + 2
             descStart == afterColon + WsRun(s, afterColon)
             descEnd == LineEnd(s, descStart)
         IN  <<[meal_type |-> SubSeq(s, i + 2, close - 1),
                meal_desc |-> SubSeq(s, descStart, descEnd - 1)]>>
                 \o findall_meals(s, descEnd)

\* the day loop of ai_meal_pexels.py: one record per piece that has a line
DayPlanPexels(day_text) ==
    LET lines == splitlines(strip(day_text))
        content == join(<<"\n">>, Tail(lines))
    IN  [heading |-> strip(lines[1]),
         content |-> content,
         meals |-> findall_meals(content, 1)]

MealKeywords ==
    { <<"b", "r", "e", "a", "k", "f", "a", "s", "t">>,
      <<"l", "u", "n", "c", "h">>,
      <<"d", "i", "n", "n", "e", "r">>,
      <<"s", "n", "a", "c", "k">> }

\* the day loop of meal_hugging.py: the meals are the lines naming a meal
DayPlanHugging(day_text) ==
    LET lines == splitlines(strip(day_text))
        content == Tail(lines)
    IN  [heading |-> lines[1],
         content |-> join(<<"\n">>, content),
         meals |-> SelectSeq(content,
                     LAMBDA line : \E m \in MealKeywords : Contains(lower(line), m))]

\* the paragraph loop of meal_text.py
DayPlanText(day) ==
    LET lines == splitlines(strip(day))
    IN  [heading |-> lines[1],
         content |-> IF Len(lines) > 1 THEN join(<<"\n">>, Tail(lines)) ELSE <<>>,
         meals |-> <<>>]

\* the pieces that reach the expander: those with at least one line
HasLines(piece) == splitlines(strip(piece)) # <<>>

(***************************************************************************)
(* Grocery text parsing (parse_grocery_list / parse_grocery)               *)
(***************************************************************************)
\* the en dash U+2013, one character of the alphabet
EnDash == "u2013"
Hyphen == "-"
Dashes == {EnDash, Hyphen}

\* re.split(r"##\s*", text)
RECURSIVE split_sections(_)
split_sections(s) ==
    LET hits == {i \in 1..Len(s) : StartsAt(s, i, <<"#", "#">>)}
    IN  IF hits = {} THEN <<s>>
        ELSE LET p == Min(hits)
             IN  <<SubSeq(s, 1, p - 1)>>
                     \o split_sections(SubSeq(s, p + 2 + WsRun(s, p + 2), Len(s)))

\* re.match(r"-\s*(.+?)\s*[<en dash>-]\s*(.+)", item): the ways the pattern
\* can match, as <<whitespace taken by the first \s*, length of group 1>>
ItemMatches(item) ==
    IF item = <<>> \/ item[1] # Hyphen THEN {}
    ELSE {kn \in (0..WsRun(item, 2)) \X (1..Len(item)) :
            LET d == 2 + kn[1] + kn[2] + WsRun(item, 2 + kn[1] + kn[2])
            IN  /\ d < Len(item)
                /\ item[d] \in Dashes}

\* the match the regex engine reports: the first \s* is greedy, group 1 lazy
item_match(item) ==
    LET ms == ItemMatches(item)
        k == Max({kn[1] : kn \in ms})
        n == Min({kn[2] : kn \in {m \in ms : m[1] = k}})
        d == 2 + k + n + WsRun(item, 2 + k + n)
    IN  IF ms = {} THEN <<>>
        ELSE <<SubSeq(item, 2 + k, 1 + k + n), SubSeq(item, d + 1, Len(item))>>

\* str.lstrip("- ") and str.strip("- ")
RECURSIVE lstrip_bullet(_)
lstrip_bullet(s) ==
    IF s # <<>> /\ Head(s) \in {"-", " "} THEN lstrip_bullet(Tail(s)) ELSE s

RECURSIVE rstrip_bullet(_)
rstrip_bullet(s) ==
    IF s # <<>> /\ s[Len(s)] \in {"-", " "}
    THEN rstrip_bullet(SubSeq(s, 1, Len(s) - 1)) ELSE s

\* one pass of the inner loop: the row appended for an item line
grocery_row(v, category, item) ==
    LET match == item_match(item)
    IN  IF match # <<>>
        THEN [Category |-> category, Item |-> strip(match[1]),
              Quantity |-> strip(match[2])]
        ELSE [Category |-> category,
              Item |-> IF v = "hugging" THEN rstrip_bullet(lstrip_bullet(item))
                       ELSE lstrip_bullet(strip(item)),
              Quantity |-> <<>>]

\* the rows of one section, or none when the section is blank
section_rows(v, section) ==
    IF strip(section) = <<>> THEN <<>>
    ELSE LET lines == splitlines(strip(section))
             category == IF v = "hugging" THEN lines[1] ELSE strip(lines[1])
         IN  [i \in 1..(Len(lines) - 1) |-> grocery_row(v, category, lines[i + 1])]

RECURSIVE rows_of_sections(_, _)
rows_of_sections(v, sections) ==
    IF sections = <<>> THEN <<>>
    ELSE section_rows(v, Head(sections)) \o rows_of_sections(v, Tail(sections))

\* parse_grocery_list(text) (ai_meal_pexels.py, meal_text.py) and
\* parse_grocery(text) (meal_hugging.py): the rows of the data frame
parse_grocery_list(v, text) == rows_of_sections(v, split_sections(text))

(***************************************************************************)
(* The script run: startup, form, and the "Generate 7-Day Diet Plan"       *)
(* handler of the three scripts                                            *)
(***************************************************************************)
Variants == {"pexels", "hugging", "text"}

Credentials == {"GEMINI_API_KEY", "HUGGINGFACE_API_KEY", "PEXELS_API_KEY"}

\* the credentials a script checks before anything else
Required(v) ==
    IF v = "hugging" THEN {"GEMINI_API_KEY", "HUGGINGFACE_API_KEY"}
    ELSE {"GEMINI_API_KEY"}

\* answers of model.generate_content to a plan prompt
NL == <<"\n">>
Day(d) == <<"D", "a", "y", " ", d>>
LunchEggs == <<"*", "*", "L", "u", "n", "c", "h", "*", "*", ":", " ">> \o Eggs
PlanOneMeal == Day("1") \o NL \o LunchEggs
PlanDays123 == Day("1") \o NL \o Day("2") \o NL \o Day("3")
PlanDays1234 == PlanDays123 \o NL \o Day("4")
PlanDays4567 == Day("4") \o NL \o Day("5") \o NL \o Day("6") \o NL \o Day("7") \o NL
PlanPreamble == <<"H", "i">> \o NL \o NL \o Day("1") \o NL \o LunchEggs
SnackOats == <<"S", "n", "a", "c", "k", ":", " ">> \o OatsMilk
PlanTwoMeals == Day("2") \o NL \o lower(LunchEggs) \o NL \o SnackOats
PlanResponses ==
    {PlanOneMeal, PlanDays123, PlanDays1234, PlanDays4567, PlanPreamble,
     PlanTwoMeals}

\* answers of model.generate_content to the grocery prompt
GroceryVeg == <<"#", "#", " ", "V", "\n", "-", " ", "a", " ", EnDash, " ", "2">>
GroceryPlain == <<"#", "#", " ", "F", "\n", "-", " ", "b">>
GroceryResponses == {GroceryVeg, GroceryPlain}

\* enhance_meal_prompt: a fixed template around the lowercased meal line
enhance_meal_prompt(meal_line) ==
    <<"A high-resolution food photo of ">> \o lower(meal_line)
        \o <<", realistic and beautifully plated, ... food photography style.">>

\* what the POST of generate_meal_image can produce: status 200 with an
\* image, another status, or an exception
HfOutcomes == {"image", "non200", Raise}

\* body of generate_meal_image: everything but a 200 answer gives None
generate_meal_image(outcome) == IF outcome = "image" THEN "image" ELSE None

\* bound on the number of script runs of one session
MaxRuns == 3

InitApp ==
    /\ SearchIdle
    /\ SidebarIdle
    /\ PlanIdle
    /\ GroceryIdle
    /\ variant \in Variants
    /\ env \in SUBSET Credentials
    /\ pc = "start"
    /\ pressed = FALSE
    /\ runs = 1
    /\ configured = FALSE
    /\ out = <<>>
    /\ genCalls = <<>>
    /\ imgRequests = 0
    /\ imgRaised = FALSE
    /\ failure = "none"
    /\ plan = <<>>
    /\ dayQueue = <<>>
    /\ mealQueue = <<>>
    /\ cache = <<>>
    /\ imgLog = <<>>
    /\ grocery_df = <<>>

\* the state a rerun of the script starts from; the cache outlives the run
StartRun(button) ==
    /\ runs < MaxRuns
    /\ runs' = runs + 1
    /\ pressed' = button
    /\ pc' = "start"
    /\ configured' = FALSE
    /\ out' = <<>>
    /\ genCalls' = <<>>
    /\ imgRequests' = 0
    /\ imgRaised' = FALSE
    /\ failure' = "none"
    /\ plan' = <<>>
    /\ dayQueue' = <<>>
    /\ mealQueue' = <<>>
    /\ grocery_df' = <<>>
    /\ UNCHANGED <<variant, env, cache, imgLog,
                   searchVars, planVars, groceryVars, sidebarVars>>

\* the user presses "Generate 7-Day Diet Plan": the script reruns
PressButton == pc \in {"idle", "done"} /\ StartRun(TRUE)

\* the user edits a sidebar widget: the script reruns, the button is not set
ChangeInput == pc \in {"idle", "done"} /\ StartRun(FALSE)

\* the credential check without the Hugging Face test
checked_pc_gemini_only(v, e) ==
    IF "GEMINI_API_KEY" \in e THEN "checked" ELSE "stopped"

\* load_dotenv, os.getenv and the credential checks that end in st.stop()
checked_pc(v, e) == IF Required(v) \subseteq e THEN "checked" ELSE "stopped"

CheckCredentials ==
    /\ pc = "start"
    /\ pc' = checked_pc(variant, env)
    /\ out' = IF "GEMINI_API_KEY" \notin env THEN <<"error: gemini key">>
              ELSE IF variant = "hugging" /\ "HUGGINGFACE_API_KEY" \notin env
              THEN <<"error: hugging face token">>
              ELSE out
    /\ UNCHANGED <<variant, env, pressed, runs, configured, genCalls,
                   imgRequests, imgRaised, failure, plan, dayQueue, mealQueue,
                   cache, imgLog, grocery_df,
                   searchVars, planVars, groceryVars, sidebarVars>>

\* genai.configure, the page title, the sidebar form with its calculations,
\* and the button
RenderForm ==
    /\ pc = "checked"
    /\ configured' = TRUE
    /\ out' = out \o <<"title", "sidebar", "button">>
    /\ pc' = IF pressed THEN "plan1" ELSE "idle"
    /\ UNCHANGED <<variant, env, pressed, runs, genCalls, imgRequests,
                   imgRaised, failure, plan, dayQueue, mealQueue, cache,
                   imgLog, grocery_df, searchVars, planVars, groceryVars, sidebarVars>>

\* an except clause that reports the error and lets the try block go on
handler_except_resume(what) ==
    /\ out' = Append(out, "error")
    /\ failure' = what
    /\ pc' = IF pc = "plan1" /\ variant # "text" THEN "plan2" ELSE "render"

\* except Exception as e: st.error(...) ; nothing of the try block runs on
handler_except(what) ==
    /\ out' = Append(out, "error")
    /\ failure' = what
    /\ pc' = "done"

\* a call site that asks the model twice
GenCall_twice(kind, ok) ==
    genCalls \o <<[kind |-> kind, ok |-> ok, at |-> Len(out)],
                  [kind |-> kind, ok |-> ok, at |-> Len(out)]>>

\* the log entry of one model.generate_content call: which call, whether it
\* returned, and how many elements were rendered before it
GenCall(kind, ok) ==
    Append(genCalls, [kind |-> kind, ok |-> ok, at |-> Len(out)])

\* the elements rendered between the plan text and the day loop
plan_banner(v, text) ==
    IF v = "pexels" /\ Cardinality(findall_days(text)) < 7
    THEN <<"warning", "subheader plan">>
    ELSE <<"subheader plan">>

\* the list the day loop iterates over
plan_pieces(v, text) ==
    CASE v = "pexels" -> split_days(strip(text))
      [] v = "hugging" -> split_days(text)
      [] v = "text" -> split_paragraphs(text)

\* first model.generate_content of the handler; in meal_text.py it is the only
\* plan call and the day loop follows
PlanCall1 ==
    /\ pc = "plan1"
    /\ \/ /\ genCalls' = GenCall("plan1", FALSE)
          /\ handler_except("text")
          /\ UNCHANGED <<plan, dayQueue>>
       \/ \E answer \in PlanResponses :
          /\ genCalls' = GenCall("plan1", TRUE)
          /\ IF variant = "text"
             THEN /\ plan' = answer
                  /\ out' = out \o plan_banner(variant, answer)
                  /\ dayQueue' = plan_pieces(variant, answer)
                  /\ pc' = "render"
                  /\ UNCHANGED failure
             ELSE /\ plan' = strip(answer)
                  /\ pc' = "plan2"
                  /\ UNCHANGED <<out, dayQueue, failure>>
    /\ UNCHANGED <<variant, env, pressed, runs, configured, imgRequests,
                   imgRaised, mealQueue, cache, imgLog, grocery_df,
                   searchVars, planVars, groceryVars, sidebarVars>>

\* second model.generate_content, the combined plan, the day count check and
\* the split into day pieces
PlanCall2 ==
    /\ pc = "plan2"
    /\ \/ /\ genCalls' = GenCall("plan2", FALSE)
          /\ handler_except("text")
          /\ UNCHANGED <<plan, dayQueue>>
       \/ \E answer \in PlanResponses :
          LET full == plan \o NL \o NL \o strip(answer)
          IN  /\ genCalls' = GenCall("plan2", TRUE)
              /\ plan' = full
              /\ out' = out \o plan_banner(variant, full)
              /\ dayQueue' = plan_pieces(variant, full)
              /\ pc' = "render"
              /\ UNCHANGED failure
    /\ UNCHANGED <<variant, env, pressed, runs, configured, imgRequests,
                   imgRaised, mealQueue, cache, imgLog, grocery_df,
                   searchVars, planVars, groceryVars, sidebarVars>>

\* the meals of a day piece that get an image lookup
meals_to_show(v, piece) ==
    CASE v = "pexels" ->
            LET meals == SelectSeq(DayPlanPexels(piece).meals,
                                   LAMBDA m : m.meal_desc # <<>>)
            IN  [i \in 1..Len(meals) |-> meals[i].meal_desc]
      [] v = "hugging" -> DayPlanHugging(piece).meals
      [] v = "text" -> <<>>

\* one pass of the day loop up to the first meal: skip a piece without lines,
\* else open the expander of the day
RenderDay ==
    /\ pc = "render"
    /\ mealQueue = <<>>
    /\ dayQueue # <<>>
    /\ dayQueue' = Tail(dayQueue)
    /\ IF HasLines(Head(dayQueue))
       THEN /\ out' = out \o (IF variant = "text" THEN <<"expander", "markdown">>
                              ELSE <<"expander">>)
            /\ mealQueue' = meals_to_show(variant, Head(dayQueue))
       ELSE UNCHANGED <<out, mealQueue>>
    /\ UNCHANGED <<variant, env, pc, pressed, runs, configured, genCalls,
                   imgRequests, imgRaised, failure, plan, cache, imgLog,
                   grocery_df,
                   searchVars, planVars, groceryVars, sidebarVars>>

\* ai_meal_pexels.py: the image lookup and the two columns of one meal.
\* Without PEXELS_API_KEY call_pexels_api returns None and sends nothing.
RenderMealPexels ==
    /\ pc = "render"
    /\ variant = "pexels"
    /\ mealQueue # <<>>
    /\ mealQueue' = Tail(mealQueue)
    /\ \E responses \in [1..3 -> ApiOutcomes] :
        /\ "PEXELS_API_KEY" \notin env => responses = <<None, None, None>>
        /\ LET r == get_meal_image(Head(mealQueue), responses)
           IN  /\ imgRequests' = IF "PEXELS_API_KEY" \in env
                                 THEN imgRequests + Len(r.calls) ELSE imgRequests
               /\ imgRaised' = (imgRaised \/ r.raised)
               /\ IF r.raised
                  THEN handler_except("image")
                  ELSE /\ out' = out \o <<IF r.result # None THEN "image"
                                          ELSE "no image found", "meal">>
                       /\ UNCHANGED <<pc, failure>>
    /\ UNCHANGED <<variant, env, pressed, runs, configured, genCalls, plan,
                   dayQueue, cache, imgLog, grocery_df,
                   searchVars, planVars, groceryVars, sidebarVars>>

\* a cache that keeps images only
cache_store_images_only(c, prompt, value) ==
    IF value = None THEN c ELSE Append(c, [prompt |-> prompt, value |-> value])

\* st.cache_data keeps whatever the function returned under its argument
cache_store(c, prompt, value) == Append(c, [prompt |-> prompt, value |-> value])

\* the cached value of a prompt, or "miss"
cache_lookup(c, prompt) ==
    LET hits == {i \in 1..Len(c) : c[i].prompt = prompt}
    IN  IF hits = {} THEN "miss" ELSE c[Min(hits)].value

\* meal_hugging.py: the line, its prompt, the cached image generation and the
\* image or caption of one meal line
RenderMealHugging ==
    /\ pc = "render"
    /\ variant = "hugging"
    /\ mealQueue # <<>>
    /\ mealQueue' = Tail(mealQueue)
    /\ LET prompt == enhance_meal_prompt(Head(mealQueue))
           cached == cache_lookup(cache, prompt)
       IN  IF cached # "miss"
           THEN /\ out' = out \o <<"markdown", IF cached # None THEN "image"
                                               ELSE "image not available">>
                /\ imgLog' = Append(imgLog, [run |-> runs,
                                              prompt |-> prompt,
                                              outcome |-> "hit",
                                              result |-> cached])
                /\ UNCHANGED <<cache, imgRequests, imgRaised>>
           ELSE \E outcome \in HfOutcomes :
                  LET img == generate_meal_image(outcome)
                  IN  /\ cache' = cache_store(cache, prompt, img)
                      /\ imgLog' = Append(imgLog, [run |-> runs,
                                                    prompt |-> prompt,
                                                    outcome |-> outcome,
                                                    result |-> img])
                      /\ imgRequests' = imgRequests + 1
                      /\ imgRaised' = (imgRaised \/ outcome = Raise)
                      /\ out' = out \o <<"markdown", IF img # None THEN "image"
                                                     ELSE "image not available">>
    /\ UNCHANGED <<variant, env, pc, pressed, runs, configured, genCalls,
                   failure, plan, dayQueue, grocery_df,
                   searchVars, planVars, groceryVars, sidebarVars>>

\* after the day loop: the grocery prompt, its model.generate_content, the
\* parser and the table with its download button
GroceryCall ==
    /\ pc = "render"
    /\ mealQueue = <<>>
    /\ dayQueue = <<>>
    /\ \/ /\ genCalls' = GenCall("grocery", FALSE)
          /\ handler_except("text")
          /\ UNCHANGED grocery_df
       \/ \E answer \in GroceryResponses :
          /\ genCalls' = GenCall("grocery", TRUE)
          /\ grocery_df' = parse_grocery_list(variant, answer)
          /\ out' = out \o <<"subheader grocery", "expander grocery",
                             "dataframe", "download button">>
          /\ pc' = "done"
          /\ UNCHANGED failure
    /\ UNCHANGED <<variant, env, pressed, runs, configured, imgRequests,
                   imgRaised, plan, dayQueue, mealQueue, cache, imgLog,
                   searchVars, planVars, groceryVars, sidebarVars>>

NextApp ==
    \/ CheckCredentials
    \/ RenderForm
    \/ PressButton
    \/ ChangeInput
    \/ PlanCall1
    \/ PlanCall2
    \/ RenderDay
    \/ RenderMealPexels
    \/ RenderMealHugging
    \/ GroceryCall

SpecApp == InitApp /\ [][NextApp]_vars

CountOf(seq, x) == Cardinality({i \in 1..Len(seq) : seq[i] = x})

\* C2: a failing image request is a soft no-result in both image strategies:
\* no exception of an image request reaches the except clause of the handler,
\* so the rendering of the remaining meals, days and grocery list goes on.
C2_ImageFailureIsSoft ==
    imgRaised => failure # "image"

\* C3: when a text-generation call fails, the except clause of the handler
\* catches it, exactly one error message is rendered, it is the last element
\* of the run, and nothing else (no call, image, day section, grocery table)
\* comes after the failing call.
C3_TextFailureAborts ==
    /\ failure = "text" =>
        /\ pc = "done"
        /\ genCalls # <<>>
        /\ ~genCalls[Len(genCalls)].ok
        /\ CountOf(out, "error") = 1
        /\ Len(out) = genCalls[Len(genCalls)].at + 1
        /\ out[Len(out)] = "error"
        /\ "dataframe" \notin {out[i] : i \in 1..Len(out)}
        /\ grocery_df = <<>>
    /\ \A i \in 1..Len(genCalls) :
        ~genCalls[i].ok => (i = Len(genCalls) /\ failure = "text")

\* the grocery call failed after the days were rendered
C3_Witness ==
    /\ failure = "text"
    /\ Len(genCalls) = 3
    /\ genCalls[3].kind = "grocery"
    /\ CountOf(out, "expander") >= 2

\* C4: while a required credential is missing, no form widget is rendered,
\* the model is not configured and no text-generation or image call is made:
\* the run shows one error and stops.
C4_NoFormWithoutCredential ==
    ~(Required(variant) \subseteq env) =>
        /\ pc \in {"start", "stopped"}
        /\ ~configured
        /\ genCalls = <<>>
        /\ imgRequests = 0
        /\ \A i \in 1..Len(out) : out[i] \notin {"title", "sidebar", "button"}
        /\ pc = "stopped" => Len(out) = 1

\* meal_hugging.py stopped for the missing Hugging Face token alone
C4_Witness ==
    /\ variant = "hugging"
    /\ "GEMINI_API_KEY" \in env
    /\ "HUGGINGFACE_API_KEY" \notin env
    /\ pc = "stopped"
    /\ out = <<"error: hugging face token">>

\* C5 as stated: no submission issues more than two text-generation calls.
C5_AtMostTwoCalls ==
    Len(genCalls) <= 2

\* the text-generation calls of a submission, in order
CallChain(v) ==
    IF v = "text" THEN <<"plan1", "grocery">>
    ELSE <<"plan1", "plan2", "grocery">>

\* C5 (amended): a submission issues a strictly sequential chain of at most
\* three text-generation calls (two in meal_text.py): the plan calls first,
\* the grocery call last, each call only after the previous one returned.
C5_SequentialCalls ==
    /\ Len(genCalls) <= Len(CallChain(variant))
    /\ \A i \in 1..Len(genCalls) : genCalls[i].kind = CallChain(variant)[i]
    /\ \A i \in 1..(Len(genCalls) - 1) :
        genCalls[i].ok /\ genCalls[i].at <= genCalls[i + 1].at
    /\ genCalls # <<>> => pressed

\* a submission that made all three calls
C5_Witness ==
    /\ pc = "done"
    /\ failure = "none"
    /\ Len(genCalls) = 3
    /\ genCalls[3].kind = "grocery"

\* the day numbers found by the day pattern of the count check
DistinctDayNumbers(s) == {s[i + 3 + WsRun(s, i + 3)] : i \in findall_days(s)}

\* C6: in ai_meal_pexels.py a combined plan with fewer than 7 distinct day
\* numbers gets the warning, a plan with 7 distinct day numbers gets none.
C6_WarnOnFewerThan7Days ==
    (variant = "pexels" /\ pc \in {"render", "done"} /\ Len(genCalls) >= 2
        /\ genCalls[2].ok)
    => (Cardinality(DistinctDayNumbers(plan)) < 7
            <=> "warning" \in {out[i] : i \in 1..Len(out)})

\* the earlier requests of the session for the prompt of request i
EarlierRequests(i) == {j \in 1..(i - 1) : imgLog[j].prompt = imgLog[i].prompt}

\* C11: over the image requests of one session of meal_hugging.py, the image
\* service is called for a request exactly when no earlier request had the
\* same prompt text (so at most once per distinct prompt); a repeated request
\* gets the result of the first request for its prompt, also when that result
\* was None; a non-200 answer or an exception of the POST gives None, and the
\* handler's except clause is never reached by it.
C11_CachedImageGeneration ==
    /\ \A i \in 1..Len(imgLog) :
          /\ (imgLog[i].outcome = "hit") <=> (EarlierRequests(i) # {})
          /\ EarlierRequests(i) # {} =>
                imgLog[i].result = imgLog[Min(EarlierRequests(i))].result
          /\ imgLog[i].outcome \in {"non200", Raise} => imgLog[i].result = None
          /\ imgLog[i].outcome = "image" => imgLog[i].result = "image"
    /\ variant = "hugging" => failure # "image"

\* a prompt whose POST raised in the second run is asked for again in the
\* third run and answered from the cache, and the session has asked for
\* another prompt as well
C11_Witness ==
    /\ variant = "hugging"
    /\ \E i, j, k \in 1..Len(imgLog) :
          /\ imgLog[i].run = 2
          /\ imgLog[j].run = 3
          /\ imgLog[i].prompt = imgLog[j].prompt
          /\ imgLog[i].outcome = Raise
          /\ imgLog[j].outcome = "hit"
          /\ imgLog[j].result = None
          /\ imgLog[k].prompt # imgLog[i].prompt

(***************************************************************************)
(* The plan parser on its own: the model's answers are typed chunk by      *)
(* chunk, then the split and the day loop of the handler run on them       *)
(***************************************************************************)
LunchLabel == <<"*", "*", "L", "u", "n", "c", "h", "*", "*", ":", " ">>
PlanChunks == {Day("1"), Day("2"), NL, <<" ">>, <<"x">>, LunchLabel}

\* the plan of the parser example: two days, two meals and one meal
BreakfastLabel ==
    <<"*", "*", "B", "r", "e", "a", "k", "f", "a", "s", "t", "*", "*", ":", " ">>
ExamplePlan ==
    Day("1") \o NL \o BreakfastLabel \o <<"O", "a", "t", "s">> \o NL
        \o LunchLabel \o <<"S", "a", "l", "a", "d">> \o NL
        \o Day("2") \o NL \o BreakfastLabel \o Eggs

SecondPlans == {<<>>, Day("2") \o NL \o LunchLabel \o Eggs, <<"x">>}

\* bound on the number of chunks of the first answer
MaxPlanChunks == 4

InitPlan ==
    /\ SearchIdle
    /\ SidebarIdle
    /\ AppIdle
    /\ GroceryIdle
    /\ \/ planIn = <<>> /\ planLen = 0
       \/ planIn = ExamplePlan /\ planLen = MaxPlanChunks
    /\ planSecond = <<>>
    /\ planV = "pexels"
    /\ planPc = "build"
    /\ days = <<>>
    /\ dayPlans = <<>>
    /\ days2 = <<>>

\* the model's first answer grows by one chunk
TypePlan ==
    /\ planPc = "build"
    /\ planLen < MaxPlanChunks
    /\ \E c \in PlanChunks : planIn' = planIn \o c
    /\ planLen' = planLen + 1
    /\ UNCHANGED <<planSecond, planV, planPc, days, dayPlans, days2,
                   searchVars, appVars, groceryVars, sidebarVars>>

\* plan = f"{first_plan}\n\n{second_plan}" of the two stripped answers
combined_plan(first, second) == strip(first) \o NL \o NL \o strip(second)

\* the text handed to re.split
split_input(v, text) == IF v = "pexels" THEN strip(text) ELSE text

\* the records of the day loop over the pieces: a piece without lines is
\* skipped, every other piece gets an expander
RECURSIVE day_plans(_, _)
day_plans(v, pieces) ==
    IF pieces = <<>> THEN <<>>
    ELSE (IF HasLines(Head(pieces))
          THEN <<IF v = "pexels" THEN DayPlanPexels(Head(pieces))
                 ELSE DayPlanHugging(Head(pieces))>>
          ELSE <<>>) \o day_plans(v, Tail(pieces))

\* the split and the day loop of ai_meal_pexels.py or meal_hugging.py
ParsePlan ==
    /\ planPc = "build"
    /\ \E v \in {"pexels", "hugging"}, second \in SecondPlans :
        LET pieces == split_days(split_input(v, combined_plan(planIn, second)))
        IN  /\ planV' = v
            /\ planSecond' = second
            /\ days' = pieces
            /\ dayPlans' = day_plans(v, pieces)
    /\ planPc' = "parsed"
    /\ UNCHANGED <<planIn, planLen, days2,
                   searchVars, appVars, groceryVars, sidebarVars>>

\* the pieces are concatenated in order and split again the same way
ResplitPlan ==
    /\ planPc = "parsed"
    /\ days2' = split_days(split_input(planV, Concat(days)))
    /\ planPc' = "resplit"
    /\ UNCHANGED <<planIn, planLen, planSecond, planV, days, dayPlans,
                   searchVars, appVars, groceryVars, sidebarVars>>

NextPlan == TypePlan \/ ParsePlan \/ ResplitPlan

SpecPlan == InitPlan /\ [][NextPlan]_vars

RECURSIVE SortedSeq(_)
SortedSeq(S) == IF S = {} THEN <<>> ELSE <<Min(S)>> \o SortedSeq(S \ {Min(S)})

\* the text that was split, and where its day headings ("Day", a space, a
\* digit) start
PlanSplitText == split_input(planV, combined_plan(planIn, planSecond))
HeadingStarts ==
    SortedSeq({i \in 1..Len(PlanSplitText) : DayHeadingAt(PlanSplitText, i)})

\* C8 as stated: the split yields one DayPlan per day heading, in source
\* order, and every DayPlan starts with its day heading token.
C8_OneDayPlanPerHeading ==
    planPc # "build" =>
        /\ Len(dayPlans) = Len(HeadingStarts)
        /\ \A i \in 1..Len(dayPlans) :
            StartsAt(dayPlans[i].heading, 1,
                     SubSeq(PlanSplitText, HeadingStarts[i], HeadingStarts[i] + 4))

\* the text before the first day heading
Preamble ==
    IF HeadingStarts = <<>> THEN PlanSplitText
    ELSE SubSeq(PlanSplitText, 1, HeadingStarts[1] - 1)

\* the i-th day segment: from its heading up to the next heading
DaySegment(i) ==
    SubSeq(PlanSplitText, HeadingStarts[i],
           IF i < Len(HeadingStarts) THEN HeadingStarts[i + 1] - 1
           ELSE Len(PlanSplitText))

\* C8 (amended): the split yields, in source order, one DayPlan per day
\* heading, preceded by one more DayPlan for the text before the first
\* heading when that text is not blank; every DayPlan of a day heading starts
\* with its heading token, its first line is the heading and the rest of the
\* segment is its body.  The example plan yields two DayPlans with two meals
\* and one meal.
C8_DayPlansWithPreamble ==
    planPc # "build" =>
        LET k == Len(HeadingStarts)
            pre == IF strip(Preamble) # <<>> THEN 1 ELSE 0
        IN  /\ days = <<Preamble>> \o [i \in 1..k |-> DaySegment(i)]
            /\ Len(dayPlans) = pre + k
            /\ pre = 1 => StartsAt(strip(Preamble), 1, dayPlans[1].heading)
            /\ \A i \in 1..k :
                LET dp == dayPlans[pre + i]
                    seg == strip(DaySegment(i))
                IN  /\ StartsAt(dp.heading, 1, SubSeq(seg, 1, 5))
                    /\ DayHeadingAt(dp.heading, 1)
                    /\ StartsAt(seg, 1, dp.heading)
                    /\ StartsAt(seg, Len(seg) - Len(dp.content) + 1, dp.content)
                    /\ \A j \in 1..Len(dp.heading) : dp.heading[j] # "\n"
                    /\ Len(seg) > Len(dp.heading)
                         => (seg[Len(seg) - Len(dp.content)] = "\n"
                             /\ \A j \in (Len(dp.heading) + 1)
                                          ..(Len(seg) - Len(dp.content)) :
                                    seg[j] \in Whitespace)
            /\ (planIn = ExamplePlan /\ planSecond = <<>>) =>
                /\ Len(dayPlans) = 2
                /\ dayPlans[1].heading = Day("1")
                /\ dayPlans[2].heading = Day("2")
                /\ Len(dayPlans[1].meals) = 2
                /\ Len(dayPlans[2].meals) = 1

\* the example plan, parsed
C8_Witness ==
    /\ planPc = "parsed"
    /\ planIn = ExamplePlan
    /\ planSecond = <<>>
    /\ Len(dayPlans) = 2
    /\ Len(dayPlans[1].meals) = 2

\* C9: splitting the plan, concatenating the pieces in order and splitting
\* the result again yields the same pieces: same count, same headings, same
\* bodies.
C9_SplitIdempotent ==
    planPc = "resplit" =>
        /\ days2 = days
        /\ Len(day_plans(planV, days2)) = Len(dayPlans)
        /\ \A i \in 1..Len(dayPlans) :
            /\ day_plans(planV, days2)[i].heading = dayPlans[i].heading
            /\ day_plans(planV, days2)[i].content = dayPlans[i].content

\* a plan of at least three day segments, split again
C9_Witness ==
    /\ planPc = "resplit"
    /\ Len(dayPlans) >= 3
    /\ Len(days2) >= 3
    /\ days2 = days

\* where the next emphasized label of s starts at or after position i, or
\* Len(s) + 1 when there is none
NextLabelFrom(s, i) ==
    LET starts == {j \in i..Len(s) : LabelClose(s, j) # 0}
    IN  IF starts = {} THEN Len(s) + 1 ELSE Min(starts)

\* the meals a day body names: one per emphasized label, the description
\* running from behind the label and its colon to the end of the line or to
\* the next label, whichever comes first
RECURSIVE LabelledMeals(_, _)
LabelledMeals(s, i) ==
    IF i > Len(s) THEN <<>>
    ELSE IF LabelClose(s, i) = 0 THEN LabelledMeals(s, i + 1)
    ELSE LET close == LabelClose(s, i)
             after == IF close + 2 <= Len(s) /\ s[close + 2] = ":"
                      THEN close + 3 ELSE close + 2
             end == Min({LineEnd(s, after), NextLabelFrom(s, after)})
         IN  <<[meal_type |-> SubSeq(s, i + 2, close - 1),
                meal_desc |-> strip(SubSeq(s, after, end - 1))]>>
                 \o LabelledMeals(s, end)

\* C13: in ai_meal_pexels.py every piece of the plan with a line is kept as a
\* DayPlan, also when its body has no emphasized label (then with no meals),
\* and the meals of a DayPlan are one per "**label**: description" of its
\* body, in order, with the label as meal_type and a description that ends at
\* the end of the label's line or at the next label, whichever comes first.
C13_MealPerLabel ==
    (planPc # "build" /\ planV = "pexels") =>
        /\ Len(dayPlans) = Cardinality({p \in 1..Len(days) : HasLines(days[p])})
        /\ \A d \in 1..Len(dayPlans) :
              LET meals == dayPlans[d].meals
                  named == LabelledMeals(dayPlans[d].content, 1)
              IN  /\ Len(meals) = Len(named)
                  /\ \A m \in 1..Len(meals) :
                        /\ meals[m].meal_type = named[m].meal_type
                        /\ strip(meals[m].meal_desc) = named[m].meal_desc

(***************************************************************************)
(* The grocery parser on its own: the model's answer is typed chunk by     *)
(* chunk, then parse_grocery_list / parse_grocery runs on it               *)
(***************************************************************************)
HeaderV == <<"#", "#", " ", "V", "\n">>
HeaderF == <<"#", "#", " ", "F", "\n">>
HeaderEmpty == <<"#", "#", "\n">>
GroceryChunks ==
    {<<"-">>, <<" ">>, <<"a">>, <<" ", Hyphen, " ">>, <<" ", EnDash, " ">>,
     NL, HeaderF, HeaderEmpty}

\* the answer of the parser example
ExampleGrocery ==
    <<"#", "#", " ", "V", "e", "g", "e", "t", "a", "b", "l", "e", "s", "\n",
      "-", " ", "C", "a", "r", "r", "o", "t", " ", EnDash, " ", "2", "0", "0", "g", "\n",
      "#", "#", " ", "F", "r", "u", "i", "t", "s", "\n",
      "-", " ", "A", "p", "p", "l", "e">>

\* bound on the number of chunks typed after the start of the answer
MaxGroceryChunks == 4

InitGrocery ==
    /\ SearchIdle
    /\ SidebarIdle
    /\ AppIdle
    /\ PlanIdle
    /\ \/ groceryIn \in {<<>>, HeaderV} /\ groceryLen = 0
       \/ groceryIn = ExampleGrocery /\ groceryLen = MaxGroceryChunks
    /\ groceryV = "pexels"
    /\ groceryPc = "build"
    /\ rows = <<>>

\* the model's answer grows by one chunk
TypeGrocery ==
    /\ groceryPc = "build"
    /\ groceryLen < MaxGroceryChunks
    /\ \E c \in GroceryChunks : groceryIn' = groceryIn \o c
    /\ groceryLen' = groceryLen + 1
    /\ UNCHANGED <<groceryV, groceryPc, rows,
                   searchVars, appVars, planVars, sidebarVars>>

\* grocery_df = parse_grocery_list(grocery_list) in one of the three scripts
ParseGrocery ==
    /\ groceryPc = "build"
    /\ \E v \in Variants :
        /\ groceryV' = v
        /\ rows' = parse_grocery_list(v, groceryIn)
    /\ groceryPc' = "parsed"
    /\ UNCHANGED <<groceryIn, groceryLen,
                   searchVars, appVars, planVars, sidebarVars>>

NextGrocery == TypeGrocery \/ ParseGrocery

SpecGrocery == InitGrocery /\ [][NextGrocery]_vars

\* the item lines of the answer, in order: the lines after the first of every
\* section that is not blank
RECURSIVE ItemLinesOf(_)
ItemLinesOf(sections) ==
    IF sections = <<>> THEN <<>>
    ELSE (IF strip(Head(sections)) = <<>> THEN <<>>
          ELSE Tail(splitlines(strip(Head(sections)))))
             \o ItemLinesOf(Tail(sections))

ItemLines == ItemLinesOf(split_sections(groceryIn))

\* an item line without its surrounding blanks and its leading bullet marker
WithoutBullet(line) ==
    IF strip(line) # <<>> /\ Head(strip(line)) = "-"
    THEN lstrip(Tail(strip(line))) ELSE strip(line)

DashPositions(b) == {i \in 1..Len(b) : b[i] \in Dashes}

\* the line holds "name - quantity": one dash, blanks around it, a name before
\* and a quantity after
IsNameDashQuantity(b) ==
    /\ Cardinality(DashPositions(b)) = 1
    /\ LET d == Min(DashPositions(b))
       IN  /\ 1 < d /\ d < Len(b)
           /\ b[d - 1] = " " /\ b[d + 1] = " "
           /\ strip(SubSeq(b, 1, d - 1)) # <<>>
           /\ strip(SubSeq(b, d + 1, Len(b))) # <<>>

HasBullet(line) == strip(line) # <<>> /\ Head(strip(line)) = Hyphen

\* C7: for every item line the bullet marker is stripped; a bullet line
\* holding "name - quantity" or "name <en dash> quantity" gives that name and
\* that quantity, a line without a dash gives the whole stripped line as the
\* name and the empty quantity.
C7_ItemNameAndQuantity ==
    groceryPc = "parsed" =>
        /\ Len(rows) = Len(ItemLines)
        /\ \A i \in 1..Len(rows) :
            LET b == WithoutBullet(ItemLines[i])
                d == Min(DashPositions(b))
            IN  /\ (HasBullet(ItemLines[i]) /\ IsNameDashQuantity(b)) =>
                    /\ rows[i].Item = strip(SubSeq(b, 1, d - 1))
                    /\ rows[i].Quantity = strip(SubSeq(b, d + 1, Len(b)))
                /\ DashPositions(b) = {} =>
                    /\ rows[i].Item = b
                    /\ rows[i].Quantity = <<>>

\* the lines of the answer, and the header lines among them
GroceryLines == splitlines(groceryIn)

IsHeaderLine(line) == Len(line) >= 2 /\ line[1] = "#" /\ line[2] = "#"

HeaderName(line) == strip(SubSeq(line, 3, Len(line)))

\* the nearest header line before line k, or 0 when there is none
NearestHeader(k) ==
    LET hs == {h \in 1..(k - 1) : IsHeaderLine(GroceryLines[h])}
    IN  IF hs = {} THEN 0 ELSE Max(hs)

\* line k can be the item line of row r: it is not a header, it sits under a
\* header with a name, that name is the row's Category, and the row's Item is
\* text of the line
IsItemLineOf(r, k) ==
    /\ ~IsHeaderLine(GroceryLines[k])
    /\ NearestHeader(k) # 0
    /\ HeaderName(GroceryLines[NearestHeader(k)]) # <<>>
    /\ r.Category = HeaderName(GroceryLines[NearestHeader(k)])
    /\ (r.Item = <<>> \/ Contains(GroceryLines[k], r.Item))

\* the rows from the i-th on have item lines of their own, in row order,
\* among the lines from the k-th on
RECURSIVE RowsFollowLines(_, _)
RowsFollowLines(i, k) ==
    IF i > Len(rows) THEN TRUE
    ELSE IF k > Len(GroceryLines) THEN FALSE
    ELSE IF IsItemLineOf(rows[i], k) THEN RowsFollowLines(i + 1, k + 1)
    ELSE RowsFollowLines(i, k + 1)

\* C12: for every answer text parse_grocery_list of ai_meal_pexels.py and
\* meal_text.py emits rows that each have an item line of their own under a
\* header line (a line beginning with "##"), with the name of the nearest
\* header line before it as Category, in the order of the lines of the text;
\* lines under a header without a name give no row.
C12_RowsUnderHeaders ==
    (groceryPc = "parsed" /\ groceryV \in {"pexels", "text"}) =>
        RowsFollowLines(1, 1)

(***************************************************************************)
(* The sidebar: the profile widgets and the energy calculation, which runs *)
(* again on every rerun of the script.  Quantities are exact fixed-point   *)
(* numbers: weight and height in tenths, bmr in eighths of a kcal (6.25    *)
(* times a tenth of a cm is 5/8 kcal), tdee in 1/320 kcal (every activity  *)
(* factor is a multiple of 1/40), calorie_goal in 1/3200 kcal.             *)
(***************************************************************************)
Genders == {"Male", "Female", "Other"}
Goals == {"Fat Loss", "Muscle Gain", "Maintain Weight"}

\* the options of the activity selectbox of each script
ActivityLevels(v) ==
    IF v = "pexels"
    THEN {"Sedentary", "Light", "Moderate", "Active", "Extra_Active"}
    ELSE {"Sedentary", "Light", "Moderate", "Active"}

\* activity_factors, times 40: 1.2, 1.375, 1.55, 1.725, 1.9
activity_factors(level) ==
    CASE level = "Sedentary" -> 48
      [] level = "Light" -> 55
      [] level = "Moderate" -> 62
      [] level = "Active" -> 69
      [] level = "Extra_Active" -> 76

\* values the number inputs accept: ages 1..120, weights from the minimum of
\* the script (10.0 kg, 30.0 kg in meal_hugging.py), heights from 100.0 cm
Ages == {1, 20, 25, 120}
Weights(v) == IF v = "hugging" THEN {300, 500, 655} ELSE {100, 300, 500, 655}
Heights == {1000, 1700, 1701}

\* the default value of the age and weight inputs
DefaultAge(v) == IF v = "hugging" THEN 25 ELSE 20
DefaultWeight(v) == IF v = "hugging" THEN 650 ELSE 500

\* a Mifflin-St Jeor with the Female offset on every gender but Male
bmr_of_female_default(g, w, h, a) ==
    IF g = "Male" THEN 8 * w + 5 * h - 40 * a + 40
    ELSE 8 * w + 5 * h - 40 * a - 1288

\* bmr by gender: 10*weight + 6.25*height - 5*age, +5 / -161 / +0
bmr_of(g, w, h, a) ==
    IF g = "Male" THEN 8 * w + 5 * h - 40 * a + 40
    ELSE IF g = "Female" THEN 8 * w + 5 * h - 40 * a - 1288
    ELSE 8 * w + 5 * h - 40 * a

\* tdee = bmr * activity_factors[activity_level]
tdee_of(b, level) == b * activity_factors(level)

\* calorie_goal = tdee * 0.7 if goal == "Fat Loss" else tdee
calorie_goal_of(t, gl) == IF gl = "Fat Loss" THEN t * 7 ELSE t * 10

\* the calculations of the sidebar block for the widget values of this run
Calculate(g, w, h, a, level, gl) ==
    /\ bmr' = bmr_of(g, w, h, a)
    /\ tdee' = tdee_of(bmr_of(g, w, h, a), level)
    /\ calorie_goal' = calorie_goal_of(tdee_of(bmr_of(g, w, h, a), level), gl)

InitSidebar ==
    /\ SearchIdle
    /\ AppIdle
    /\ PlanIdle
    /\ GroceryIdle
    /\ sidebarV \in Variants
    /\ age = DefaultAge(sidebarV)
    /\ gender = "Male"
    /\ weight = DefaultWeight(sidebarV)
    /\ height = 1700
    /\ activity_level = "Sedentary"
    /\ goal = "Fat Loss"
    /\ bmr = bmr_of("Male", DefaultWeight(sidebarV), 1700, DefaultAge(sidebarV))
    /\ tdee = tdee_of(bmr, "Sedentary")
    /\ calorie_goal = calorie_goal_of(tdee, "Fat Loss")

ChangeAge ==
    /\ \E a \in Ages \ {age} :
        /\ age' = a
        /\ Calculate(gender, weight, height, a, activity_level, goal)
    /\ UNCHANGED <<sidebarV, gender, weight, height, activity_level, goal,
                   searchVars, appVars, planVars, groceryVars>>

ChangeGender ==
    /\ \E g \in Genders \ {gender} :
        /\ gender' = g
        /\ Calculate(g, weight, height, age, activity_level, goal)
    /\ UNCHANGED <<sidebarV, age, weight, height, activity_level, goal,
                   searchVars, appVars, planVars, groceryVars>>

ChangeWeight ==
    /\ \E w \in Weights(sidebarV) \ {weight} :
        /\ weight' = w
        /\ Calculate(gender, w, height, age, activity_level, goal)
    /\ UNCHANGED <<sidebarV, age, gender, height, activity_level, goal,
                   searchVars, appVars, planVars, groceryVars>>

ChangeHeight ==
    /\ \E h \in Heights \ {height} :
        /\ height' = h
        /\ Calculate(gender, weight, h, age, activity_level, goal)
    /\ UNCHANGED <<sidebarV, age, gender, weight, activity_level, goal,
                   searchVars, appVars, planVars, groceryVars>>

ChangeActivity ==
    /\ \E level \in ActivityLevels(sidebarV) \ {activity_level} :
        /\ activity_level' = level
        /\ Calculate(gender, weight, height, age, level, goal)
    /\ UNCHANGED <<sidebarV, age, gender, weight, height, goal,
                   searchVars, appVars, planVars, groceryVars>>

ChangeGoal ==
    /\ \E gl \in Goals \ {goal} :
        /\ goal' = gl
        /\ Calculate(gender, weight, height, age, activity_level, gl)
    /\ UNCHANGED <<sidebarV, age, gender, weight, height, activity_level,
                   searchVars, appVars, planVars, groceryVars>>

NextSidebar ==
    \/ ChangeAge
    \/ ChangeGender
    \/ ChangeWeight
    \/ ChangeHeight
    \/ ChangeActivity
    \/ ChangeGoal

SpecSidebar == InitSidebar /\ [][NextSidebar]_vars

\* C10 as stated, its example: Male, 20 years, 50 kg, 170 cm gives bmr 1067.5.
C10_ExampleBmr1067 ==
    (gender = "Male" /\ age = 20 /\ weight = 500 /\ height = 1700)
        => 10 * bmr = 8 * 10675

\* the gender offset of the basal metabolic rate, in kcal
GenderOffset(g) ==
    CASE g = "Male" -> 5
      [] g = "Female" -> 0 - 161
      [] g = "Other" -> 0

\* C10 (amended): bmr = 10*weight + 6.25*height - 5*age, plus 5 for Male,
\* minus 161 for Female, no offset for Other; tdee = bmr * activity factor;
\* calorie_goal = 0.7 * tdee for Fat Loss and tdee for the other two goals.
\* The three are functions of the profile alone.  Male, 20 years, 50 kg,
\* 170 cm gives bmr 1467.5.
C10_EnergyTargets ==
    /\ 1000 * bmr = 8 * (10 * (100 * weight) + 625 * height - 5 * (1000 * age)
                            + 1000 * GenderOffset(gender))
    /\ activity_level = "Sedentary" => 10 * tdee = 12 * (40 * bmr)
    /\ activity_level = "Light" => 1000 * tdee = 1375 * (40 * bmr)
    /\ activity_level = "Moderate" => 100 * tdee = 155 * (40 * bmr)
    /\ activity_level = "Active" => 1000 * tdee = 1725 * (40 * bmr)
    /\ activity_level = "Extra_Active" => 10 * tdee = 19 * (40 * bmr)
    /\ goal = "Fat Loss" => 10 * calorie_goal = 7 * (10 * tdee)
    /\ goal \in {"Muscle Gain", "Maintain Weight"} => calorie_goal = 10 * tdee
    /\ (gender = "Male" /\ age = 20 /\ weight = 500 /\ height = 1700)
        => 10 * bmr = 8 * 14675

\* a Female profile on a Fat Loss goal with a changed activity level
C10_Witness ==
    /\ gender = "Female"
    /\ goal = "Fat Loss"
    /\ activity_level = "Moderate"
    /\ age = 25
    /\ weight = 655
    /\ height = 1701
    /\ 1000 * bmr = 8 * (655000 + 1063125 - 125000 - 161000)
    /\ calorie_goal = 7 * 62 * bmr

InitSearch == SearchIdle /\ AppIdle /\ PlanIdle /\ GroceryIdle /\ SidebarIdle

\* one call search_pexels(meal_name) against an API answering `responses`
Search ==
    /\ searchRuns < MaxSearches
    /\ \E name \in MealNames, responses \in [1..3 -> ApiOutcomes] :
        /\ meal_name' = name
        /\ apiResponses' = responses
        /\ searchOut' = search_pexels(name, responses)
    /\ searchRuns' = searchRuns + 1
    /\ UNCHANGED <<appVars, planVars, groceryVars, sidebarVars>>

NextSearch == Search

SpecSearch == InitSearch /\ [][NextSearch]_vars

\* the simplified query the search strategy derives from each description:
\* lowercased, cut before the first comma, cut before "with", trimmed
SimplifiedOf(name) ==
    CASE name = OatsMilk -> <<"o", "a", "t", "s">>
      [] name = RiceWithDal -> <<"r", "i", "c", "e">>
      [] name = Eggs -> <<"e", "g", "g", "s">>
      [] name = HealthyFood -> HealthyFood

QueryChain(name) == <<name, SimplifiedOf(name), HealthyFood>>

\* C1: search_pexels calls the image search on the queries [description,
\* simplify(description), "healthy food"] in that order, a query is called
\* only when every earlier call returned nothing, at most 3 calls are made,
\* the value returned is the answer of the first call with a non-empty answer,
\* and it is None exactly when all three calls returned nothing; when the
\* first two calls fail and the third succeeds the third answer is returned.
C1_SearchChain ==
    searchRuns > 0 =>
        LET n == Len(searchOut.calls)
        IN  /\ n \in 1..3
            /\ \A i \in 1..n : searchOut.calls[i] = QueryChain(meal_name)[i]
            /\ \A i \in 1..(n - 1) : apiResponses[i] = None
            /\ searchOut.raised <=> apiResponses[n] = Raise
            /\ ~searchOut.raised =>
                  /\ searchOut.result = apiResponses[n]
                  /\ n < 3 => apiResponses[n] \in Urls
                  /\ searchOut.result = None
                        <=> \A i \in 1..3 : apiResponses[i] = None
            /\ (apiResponses[1] = None /\ apiResponses[2] = None
                    /\ apiResponses[3] \in Urls)
                  => searchOut.result = apiResponses[3]

\* a search whose first two calls returned nothing and whose third returned a URL
C1_Witness ==
    /\ searchRuns > 0
    /\ apiResponses[1] = None /\ apiResponses[2] = None
    /\ apiResponses[3] \in Urls
    /\ Len(searchOut.calls) = 3
    /\ searchOut.result = apiResponses[3]
    /\ meal_name = RiceWithDal

====
